---- MODULE Spec2Model ----
(***************************************************************************)
(* The log-analyzer coordinator (coordinator.py) as a state machine: the   *)
(* worker registry, the /register and /heartbeat handlers, and the         *)
(* /process_chunk handler with its chunk planner, its round-robin dispatch *)
(* loop and its aggregation.  The coordinator runs one asyncio event loop: *)
(* a handler runs without interruption between two awaits, so every action *)
(* below is the code between two suspension points of one handler.         *)
(*                                                                         *)
(* coordinator.py calls os.path.getsize without importing os.  Run as      *)
(* shipped, the lookup raises NameError and every /process_chunk request   *)
(* ends there; the code after it runs only in a process that binds the     *)
(* name in the module's globals.  os_bound records which of the two holds, *)
(* and is chosen once, at the start.                                       *)
(***************************************************************************)
EXTENDS Integers, Sequences, FiniteSets, TLC

\* ---------------------------------------------------------------- bounds
MaxFileSize == 4        \* os.path.getsize results are 0..MaxFileSize
MaxChunkSize == 3       \* chunk_size inputs are -1..MaxChunkSize
MaxPlan == 10           \* length at which a non-terminating plan is cut off
MaxResults == 2         \* longest result list aggregate_results is called with
MaxDeltas == 2          \* update_metrics calls made on one Analyzer
MaxLines == 2           \* lines of the log files that are split and read

\* the /process_chunk requests the model follows
Requests == {"r1"}
FileSizes == 0..MaxFileSize
ChunkSizes == -1..MaxChunkSize
WorkerIds == {"w1", "w2"}
WorkerUrls == {"http://a", "http://b"}

\* ChunkResult values a worker can answer with (worker.py process_chunk):
\* avg_response_time is total_time / total_requests, 0 without requests.
Metrics ==
    { [requests_per_second |-> 5, avg_response_time |-> 100,
       malformed_lines |-> 0, error_rate |-> 0],
      [requests_per_second |-> 0, avg_response_time |-> 0,
       malformed_lines |-> 1, error_rate |-> 0] }

NoMetrics ==
    [requests_per_second |-> 0, avg_response_time |-> 0,
     malformed_lines |-> 0, error_rate |-> 0]

\* What the coordinator's session.post(...) / resp.json() can observe from a
\* Worker of this repository: 200 with a JSON ChunkResult, aiohttp's 500
\* text/plain page when Worker.process_chunk raises (open() on a bad path),
\* or no response at all (connection refused, reset).
WorkerReplies ==
    { [kind |-> "json", status |-> 200, body |-> m] : m \in Metrics }
    \cup { [kind |-> "text", status |-> 500, body |-> NoMetrics],
           [kind |-> "network_error", status |-> 0, body |-> NoMetrics] }

VARIABLES
    workers,            \* self.workers: dict, as the sequence of its items in key order
    os_bound,           \* whether the name os resolves in coordinator.py's globals
    req,                \* per /process_chunk request: the handler's frame and its outcome
    last_response,      \* the response of the last /register or /heartbeat request
    first_registered,   \* history: worker ids in the order they first registered
    self_results,       \* self.results: the list made by __init__
    disk,               \* the characters of the log file at filepath
    wk,                 \* the Worker process: its /process and /heartbeat handlers
    agg,                \* a call of Coordinator.aggregate_results: argument and result
    analyzer            \* an Analyzer object, with the deltas it was updated with

\* the state outside the coordinator's handlers
others == <<disk, wk, agg, analyzer>>

vars == <<workers, os_bound, req, last_response, first_registered, self_results,
          disk, wk, agg, analyzer>>

\* ------------------------------------------------------------- registry
\* list(self.workers.keys())
Keys(w) == [k \in 1..Len(w) |-> w[k].worker_id]

KeySet(w) == {w[k].worker_id : k \in 1..Len(w)}

\* position of worker_id in the dict's order, 0 when it is not a key
IndexOf(w, worker_id) ==
    IF worker_id \in KeySet(w)
    THEN CHOOSE k \in 1..Len(w) : w[k].worker_id = worker_id
    ELSE 0

\* mutant: the assignment rebinds self.workers to a dict holding only the new entry
DictSetReplaceAll(w, worker_id, value) ==
    << [worker_id |-> worker_id, worker_url |-> value.worker_url,
        status |-> value.status] >>

\* mutant: an overwritten key is moved to the end of the order
DictSetMoveToEnd(w, worker_id, value) ==
    Append(SelectSeq(w, LAMBDA e : e.worker_id # worker_id),
           [worker_id |-> worker_id, worker_url |-> value.worker_url,
            status |-> value.status])

\* self.workers[worker_id] = value: a new key goes last, a known key keeps its place
DictSet(w, worker_id, value) ==
    LET entry == [worker_id |-> worker_id, worker_url |-> value.worker_url,
                  status |-> value.status]
    IN  IF worker_id \in KeySet(w)
        THEN [w EXCEPT ![IndexOf(w, worker_id)] = entry]
        ELSE Append(w, entry)

\* the event loop is inside _split_file's while loop: no other handler runs
LoopBusy == \E r \in DOMAIN req : req[r].pc = "split"

IdleRequest ==
    [pc |-> "idle", file_size |-> 0, chunk_size |-> 0, start |-> 0,
     chunks |-> <<>>, i |-> 0, results |-> <<>>, calls |-> <<>>,
     dispatched |-> FALSE, snap |-> <<>>,
     undisturbed |-> TRUE, error |-> "none", status |-> 0,
     returned |-> <<>>]

\* Coordinator.__init__, for the requests rs the model follows
CoordinatorInit(rs) ==
    /\ workers = <<>>
    /\ os_bound \in BOOLEAN
    /\ req = [r \in rs |-> IdleRequest]
    /\ last_response = [op |-> "none", worker_id |-> "none", status |-> 0]
    /\ first_registered = <<>>
    /\ self_results = <<>>

\* a Worker that has handled nothing yet
IdleWorker ==
    [pc |-> "idle", route |-> "none", lines |-> <<>>, k |-> 0, total_time |-> 0,
     total_requests |-> 0, malformed_lines |-> 0, status |-> 0,
     returned |-> <<>>, push |-> "none"]

\* no call of aggregate_results
NoCall == [pc |-> "none", results |-> <<>>, returned |-> <<>>]

\* Analyzer.__init__; deltas is the history of the update_metrics arguments
NewAnalyzer ==
    [metrics |-> [error_rate_per_minute |-> 0, average_response_time |-> 0,
                  request_count_per_second |-> 0, resource_usage |-> <<>>],
     deltas |-> <<>>, returned |-> <<>>, last |-> "none"]

Init ==
    /\ CoordinatorInit(Requests)
    /\ disk = <<>>
    /\ wk = IdleWorker
    /\ agg = NoCall
    /\ analyzer = NewAnalyzer

\* POST /register
handle_worker_registration(worker_id, worker_url) ==
    /\ ~LoopBusy
    /\ workers' = DictSet(workers, worker_id,
                          [worker_url |-> worker_url, status |-> "active"])
    /\ last_response' = [op |-> "register", worker_id |-> worker_id, status |-> 200]
    /\ first_registered' =
          IF \E k \in 1..Len(first_registered) : first_registered[k] = worker_id
          THEN first_registered
          ELSE Append(first_registered, worker_id)
    /\ req' = [r \in DOMAIN req |->
                 [req[r] EXCEPT !.undisturbed =
                     @ /\ (req[r].pc # "await_worker" \/ workers' = workers)]]
    /\ UNCHANGED <<os_bound, self_results, others>>

\* mutant: the status is written without the membership test, creating the entry
RefreshUpsert(w, worker_id) ==
    IF worker_id \in KeySet(w)
    THEN [w EXCEPT ![IndexOf(w, worker_id)].status = "active"]
    ELSE Append(w, [worker_id |-> worker_id, worker_url |-> "", status |-> "active"])

\* if worker_id in self.workers: self.workers[worker_id]["status"] = "active"
Refresh(w, worker_id) ==
    IF worker_id \in KeySet(w)
    THEN [w EXCEPT ![IndexOf(w, worker_id)].status = "active"]
    ELSE w

\* POST /heartbeat
handle_worker_health_check(worker_id) ==
    /\ ~LoopBusy
    /\ workers' = Refresh(workers, worker_id)
    /\ last_response' = [op |-> "heartbeat", worker_id |-> worker_id, status |-> 200]
    /\ UNCHANGED <<os_bound, req, first_registered, self_results, others>>

\* ---------------------------------------------------------- aggregation
\* mutant: total_malformed is assigned, not accumulated
RECURSIVE AggregateLoopAssigns(_, _, _)
AggregateLoopAssigns(results, k, acc) ==
    IF k > Len(results)
    THEN acc
    ELSE AggregateLoopAssigns(results, k + 1,
            << acc[1] + results[k].requests_per_second,
               acc[2] + results[k].avg_response_time * results[k].requests_per_second,
               results[k].malformed_lines >>)

\* mutant: total_time accumulates the averages without their request counts
RECURSIVE AggregateLoopUnweighted(_, _, _)
AggregateLoopUnweighted(results, k, acc) ==
    IF k > Len(results)
    THEN acc
    ELSE AggregateLoopUnweighted(results, k + 1,
            << acc[1] + results[k].requests_per_second,
               acc[2] + results[k].avg_response_time,
               acc[3] + results[k].malformed_lines >>)

\* the for loop of aggregate_results from results[k] on: acc is
\* <<total_requests, total_time, total_malformed>>
RECURSIVE AggregateLoop(_, _, _)
AggregateLoop(results, k, acc) ==
    IF k > Len(results)
    THEN acc
    ELSE AggregateLoop(results, k + 1,
            << acc[1] + results[k].requests_per_second,
               acc[2] + results[k].avg_response_time * results[k].requests_per_second,
               acc[3] + results[k].malformed_lines >>)

\* mutant: total_time is divided by total_chunks = len(results)
aggregate_results_per_chunk(results) ==
    LET acc == AggregateLoop(results, 1, <<0, 0, 0>>)
    IN  [avg_response_time |->
             IF Len(results) > 0 THEN <<acc[2], Len(results)>> ELSE <<0, 1>>,
         requests_per_second |-> acc[1],
         error_rate |-> 0,
         malformed_lines |-> acc[3]]

\* total_time / total_requests is a true division: the quotient is kept exact,
\* as the pair <<numerator, denominator>>; the else branch's 0 is <<0, 1>>
aggregate_results(results) ==
    LET acc == AggregateLoop(results, 1, <<0, 0, 0>>)
        total_requests == acc[1]
        total_time == acc[2]
        total_malformed == acc[3]
    IN  [avg_response_time |->
             IF total_requests > 0 THEN <<total_time, total_requests>> ELSE <<0, 1>>,
         requests_per_second |-> total_requests,
         error_rate |-> 0,
         malformed_lines |-> total_malformed]

\* ------------------------------------------------------------- planning
\* mutant: the loop also runs for start = file_size
WhileCondInclusive(start, file_size) == start <= file_size

\* the while condition of _split_file
WhileCond(start, file_size) == start < file_size

\* the chunk _split_file appends for the current start
ChunkAt(start, chunk_size) == <<start, chunk_size>>

\* mutant: the next chunk starts on the last byte of the previous one
NextStartOverlap(start, chunk_size) == start + chunk_size - 1

\* start += chunk_size
NextStart(start, chunk_size) == start + chunk_size

\* ------------------------------------------------------------- dispatch
\* mutant: the cycle starts at the second worker
RoundRobinShifted(w, i) == Keys(w)[((i + 1) % Len(w)) + 1]

\* list(self.workers.keys())[i % len(self.workers)]
RoundRobin(w, i) == Keys(w)[(i % Len(w)) + 1]

\* the exception leaves the handler: aiohttp answers 500 and the frame (with
\* the results collected so far) is gone
Raise(q, error) ==
    [q EXCEPT !.pc = "failed", !.error = error, !.status = 500, !.results = <<>>]

\* mutant: an empty registry ends the loop and the empty result list is aggregated
ModByZeroSkips(q) ==
    [q EXCEPT !.pc = "done", !.status = 200,
              !.returned = <<aggregate_results(q.results)>>]

\* i % len(self.workers) with an empty registry
ModByZero(q) == Raise(q, "ZeroDivisionError")

\* One pass of the for loop of handle_process_chunk from its head, with q.i
\* the next chunk index, up to the next suspension: either the loop is over
\* and the aggregate is returned, or len(self.workers) is 0 and i % 0 raises,
\* or the call for chunk i is posted and the handler awaits the response.
NextChunk(q, w) ==
    IF q.i >= Len(q.chunks)
    THEN [q EXCEPT !.pc = "done", !.status = 200,
                   !.returned = <<aggregate_results(q.results)>>]
    ELSE IF Len(w) = 0
    THEN ModByZero(q)
    ELSE LET worker_id == RoundRobin(w, q.i)
             worker_url == w[IndexOf(w, worker_id)].worker_url
             chunk == q.chunks[q.i + 1]
         IN  [q EXCEPT !.pc = "await_worker",
                       !.calls = Append(@, [index |-> q.i, worker_id |-> worker_id,
                                            worker_url |-> worker_url,
                                            start |-> chunk[1], size |-> chunk[2]])]

\* POST /process_chunk up to the first iteration of _split_file's loop:
\* os.path.getsize needs the name os, which coordinator.py never imports, and
\* an existing file
handle_process_chunk(r, exists, file_size, chunk_size) ==
    /\ ~LoopBusy
    /\ req[r].pc = "idle"
    /\ req' = [req EXCEPT ![r] =
          IF ~os_bound
          THEN Raise([@ EXCEPT !.chunk_size = chunk_size], "NameError")
          ELSE IF ~exists
          THEN Raise([@ EXCEPT !.chunk_size = chunk_size], "FileNotFoundError")
          ELSE [@ EXCEPT !.pc = "split", !.file_size = file_size,
                         !.chunk_size = chunk_size, !.start = 0, !.chunks = <<>>]]
    /\ UNCHANGED <<workers, os_bound, last_response, first_registered, self_results, others>>

\* one iteration of the while loop of _split_file
_split_file_while(r) ==
    /\ req[r].pc = "split"
    /\ WhileCond(req[r].start, req[r].file_size)
    /\ Len(req[r].chunks) < MaxPlan
    /\ req' = [req EXCEPT ![r] =
          [@ EXCEPT !.chunks = Append(@, ChunkAt(req[r].start, req[r].chunk_size)),
                    !.start = NextStart(@, req[r].chunk_size)]]
    /\ UNCHANGED <<workers, os_bound, last_response, first_registered, self_results, others>>

\* _split_file returns; results = [] and the for loop starts
handle_process_chunk_dispatch(r) ==
    /\ req[r].pc = "split"
    /\ ~WhileCond(req[r].start, req[r].file_size)
    /\ req' = [req EXCEPT ![r] =
          NextChunk([@ EXCEPT !.dispatched = TRUE, !.snap = workers,
                              !.undisturbed = TRUE, !.results = <<>>, !.i = 0],
                    workers)]
    /\ UNCHANGED <<workers, os_bound, last_response, first_registered, self_results, others>>

\* mutant: a failed worker call is swallowed and the loop goes on to the next chunk
ResumeSkipsFailure(q, reply, w) ==
    IF reply.kind = "json"
    THEN NextChunk([q EXCEPT !.results = Append(@, reply.body), !.i = @ + 1], w)
    ELSE NextChunk([q EXCEPT !.i = @ + 1], w)

\* mutant: the new result is put at the head of the list
ResumePrepends(q, reply, w) ==
    IF reply.kind = "json"
    THEN NextChunk([q EXCEPT !.results = <<reply.body>> \o @, !.i = @ + 1], w)
    ELSE IF reply.kind = "text"
    THEN Raise(q, "ContentTypeError")
    ELSE Raise(q, "ClientConnectionError")

\* the awaited worker call ends: resp.json() gives the ChunkResult, which is
\* appended before the loop goes on, or raises on a body that is not
\* application/json, or session.post raised
Resume(q, reply, w) ==
    IF reply.kind = "json"
    THEN NextChunk([q EXCEPT !.results = Append(@, reply.body), !.i = @ + 1], w)
    ELSE IF reply.kind = "text"
    THEN Raise(q, "ContentTypeError")
    ELSE Raise(q, "ClientConnectionError")

\* mutant: results is one list shared by the handlers, so the outcome
\* reaches every handler that awaits a worker
DeliverToAll(rq, r, reply, w) ==
    [x \in DOMAIN rq |->
        IF rq[x].pc = "await_worker" THEN Resume(rq[x], reply, w) ELSE rq[x]]

\* results, i and chunks are locals of the handler: the outcome of a call
\* reaches the frame of the request that made it and no other
Deliver(rq, r, reply, w) == [rq EXCEPT ![r] = Resume(@, reply, w)]

\* the handler is resumed with the outcome of the call it awaits
handle_process_chunk_resume(r, reply) ==
    /\ ~LoopBusy
    /\ req[r].pc = "await_worker"
    /\ req' = Deliver(req, r, reply, workers)
    /\ UNCHANGED <<workers, os_bound, last_response, first_registered, self_results, others>>

Next ==
    \/ \E worker_id \in WorkerIds, worker_url \in WorkerUrls :
          handle_worker_registration(worker_id, worker_url)
    \/ \E worker_id \in WorkerIds : handle_worker_health_check(worker_id)
    \/ \E r \in Requests, exists \in BOOLEAN,
          file_size \in FileSizes, chunk_size \in ChunkSizes :
          handle_process_chunk(r, exists, file_size, chunk_size)
    \/ \E r \in Requests : _split_file_while(r)
    \/ \E r \in Requests : handle_process_chunk_dispatch(r)
    \/ \E r \in Requests, reply \in WorkerReplies :
          handle_process_chunk_resume(r, reply)

Spec == Init /\ [][Next]_vars

\* ------------------------------------------------------------ the worker
\* Text is a sequence of one-character strings.
\* " Request processed in ", the fixed text of the pattern with its spaces
Literal ==
    << " ", "R", "e", "q", "u", "e", "s", "t", " ", "p", "r", "o", "c", "e",
       "s", "s", "e", "d", " ", "i", "n", " " >>

DigitChars == {"0", "1", "2", "3", "4", "5", "6", "7", "8", "9"}

DigitValue(c) ==
    CASE c = "0" -> 0 [] c = "1" -> 1 [] c = "2" -> 2 [] c = "3" -> 3
      [] c = "4" -> 4 [] c = "5" -> 5 [] c = "6" -> 6 [] c = "7" -> 7
      [] c = "8" -> 8 [] c = "9" -> 9

\* int(response_time) for a run of digits
RECURSIVE IntOf(_)
IntOf(digits) ==
    IF digits = <<>>
    THEN 0
    ELSE 10 * IntOf(SubSeq(digits, 1, Len(digits) - 1)) + DigitValue(digits[Len(digits)])

\* \S: any character but whitespace
NonSpace(c) == c \notin {" ", "\n", "\t", "\r"}

\* text[a..b] is matched by \S+
NonSpaceRun(text, a, b) ==
    /\ a <= b
    /\ b <= Len(text)
    /\ \A j \in a..b : NonSpace(text[j])

\* text[a..b] is matched by \d+
DigitRun(text, a, b) ==
    /\ a <= b
    /\ b <= Len(text)
    /\ \A j \in a..b : text[j] \in DigitChars

\* the end of the longest run of \S characters that starts at a (a - 1: none)
RECURSIVE NonSpaceEnd(_, _)
NonSpaceEnd(text, a) ==
    IF a <= Len(text) /\ NonSpace(text[a]) THEN NonSpaceEnd(text, a + 1) ELSE a - 1

\* the end of the longest run of digits that starts at a (a - 1: none)
RECURSIVE DigitEnd(_, _)
DigitEnd(text, a) ==
    IF a <= Len(text) /\ text[a] \in DigitChars THEN DigitEnd(text, a + 1) ELSE a - 1

\* text[a..] starts with the characters of word
StartsAt(text, a, word) ==
    /\ a + Len(word) - 1 <= Len(text)
    /\ SubSeq(text, a, a + Len(word) - 1) = word

\* The ways re.match(r"(\S+ \S+) (\S+) Request processed in (\d+)ms", line)
\* can succeed, as <<a, b, c, d>>: \S+ is line[1..a], line[a+2..b] and
\* line[b+2..c], the fixed text follows c, (\d+) ends at d, then "ms".
\* The match is anchored at the start of the line only.
\* Neither \S+ nor \d+ can stop short of the end of its run (the character
\* that follows must be a space, or "m"), so the only candidate is the one
\* of the longest runs.
MatchPoints(line) ==
    { p \in LET a == NonSpaceEnd(line, 1)
                b == NonSpaceEnd(line, a + 2)
                c == NonSpaceEnd(line, b + 2)
                d == DigitEnd(line, c + Len(Literal) + 1)
            IN  {<<a, b, c, d>>} :
        /\ NonSpaceRun(line, 1, p[1])
        /\ StartsAt(line, p[1] + 1, <<" ">>)
        /\ NonSpaceRun(line, p[1] + 2, p[2])
        /\ StartsAt(line, p[2] + 1, <<" ">>)
        /\ NonSpaceRun(line, p[2] + 2, p[3])
        /\ StartsAt(line, p[3] + 1, Literal)
        /\ DigitRun(line, p[3] + Len(Literal) + 1, p[4])
        /\ StartsAt(line, p[4] + 1, <<"m", "s">>) }

\* match.groups()[2], the digits of the response time, for a matching line
ResponseTime(line) ==
    LET p == CHOOSE q \in MatchPoints(line) : TRUE
    IN  SubSeq(line, p[3] + Len(Literal) + 1, p[4])

\* mutant: the malformed counter also counts the matching lines
ParseLineCountsAll(line, acc) ==
    IF MatchPoints(line) # {}
    THEN [acc EXCEPT !.total_requests = @ + 1,
                     !.total_time = @ + IntOf(ResponseTime(line)),
                     !.malformed_lines = @ + 1]
    ELSE [acc EXCEPT !.malformed_lines = @ + 1]

\* the body of the for loop of Worker.process_chunk for one line
ParseLine(line, acc) ==
    IF MatchPoints(line) # {}
    THEN [acc EXCEPT !.total_requests = @ + 1,
                     !.total_time = @ + IntOf(ResponseTime(line))]
    ELSE [acc EXCEPT !.malformed_lines = @ + 1]

\* the end of the line that starts at pos: its newline, or the end of the text
RECURSIVE LineEnd(_, _)
LineEnd(text, pos) ==
    IF pos >= Len(text) \/ text[pos] = "\n" THEN pos ELSE LineEnd(text, pos + 1)

\* f.readlines(size) with the file positioned at pos (1-based), total the
\* length of the lines in acc: whole lines are read until their total
\* length exceeds size; a size <= 0 reads to the end of the file
RECURSIVE ReadLinesFrom(_, _, _, _, _)
ReadLinesFrom(text, pos, size, total, acc) ==
    IF pos > Len(text)
    THEN acc
    ELSE LET line == SubSeq(text, pos, LineEnd(text, pos))
         IN  IF size > 0 /\ Len(line) > size - total
             THEN Append(acc, line)
             ELSE ReadLinesFrom(text, pos + Len(line), size, total + Len(line),
                                Append(acc, line))

\* f.seek(start); lines = f.readlines(size)
ReadLines(text, start, size) == ReadLinesFrom(text, start + 1, size, 0, <<>>)

\* the counters process_chunk starts with
ZeroCounters == [total_time |-> 0, total_requests |-> 0, malformed_lines |-> 0]

\* the metrics dict of process_chunk; avg_response_time is the exact
\* quotient <<total_time, total_requests>>, and <<0, 1>> without requests
MetricsOf(acc) ==
    [error_rate |-> 0,
     avg_response_time |->
         IF acc.total_requests > 0
         THEN <<acc.total_time, acc.total_requests>>
         ELSE <<0, 1>>,
     requests_per_second |-> acc.total_requests,
     malformed_lines |-> acc.malformed_lines]

\* the for loop of process_chunk over lines, from the counters acc
RECURSIVE ForLines(_, _)
ForLines(lines, acc) ==
    IF lines = <<>> THEN acc ELSE ForLines(Tail(lines), ParseLine(Head(lines), acc))

\* Worker.process_chunk(filepath, start, size) on a file of content text
process_chunk(text, start, size) ==
    MetricsOf(ForLines(ReadLines(text, start, size), ZeroCounters))

\* the metrics as the coordinator reads them from the JSON body; the quotient
\* is a whole number in the files of LogFiles, whose matching lines all have
\* the same response time
ChunkResultJson(m) ==
    [m EXCEPT !.avg_response_time = @[1] \div @[2]]

\* POST /process: the chunk is read; open() raises on a missing file
Worker_handle_process_chunk(exists, start, size) ==
    /\ wk.pc = "idle"
    /\ wk' = IF exists
             THEN [wk EXCEPT !.pc = "parsing", !.route = "/process",
                             !.lines = ReadLines(disk, start, size), !.k = 1,
                             !.total_time = 0, !.total_requests = 0,
                             !.malformed_lines = 0, !.returned = <<>>]
             ELSE [wk EXCEPT !.route = "/process", !.status = 500, !.returned = <<>>]
    /\ UNCHANGED <<workers, os_bound, req, last_response, first_registered, self_results,
                   disk, agg, analyzer>>

\* one iteration of the for loop over lines
Worker_process_chunk_for ==
    /\ wk.pc = "parsing"
    /\ wk.k <= Len(wk.lines)
    /\ wk' = LET acc == ParseLine(wk.lines[wk.k],
                                  [total_time |-> wk.total_time,
                                   total_requests |-> wk.total_requests,
                                   malformed_lines |-> wk.malformed_lines])
             IN  [wk EXCEPT !.k = @ + 1, !.total_time = acc.total_time,
                            !.total_requests = acc.total_requests,
                            !.malformed_lines = acc.malformed_lines]
    /\ UNCHANGED <<workers, os_bound, req, last_response, first_registered, self_results,
                   disk, agg, analyzer>>

\* the loop is over: the metrics are computed and returned as JSON
Worker_process_chunk_return ==
    /\ wk.pc = "parsing"
    /\ wk.k > Len(wk.lines)
    /\ wk' = [wk EXCEPT !.pc = "idle", !.status = 200,
                        !.returned = <<MetricsOf([total_time |-> wk.total_time,
                                                 total_requests |-> wk.total_requests,
                                                 malformed_lines |-> wk.malformed_lines])>>]
    /\ UNCHANGED <<workers, os_bound, req, last_response, first_registered, self_results,
                   disk, agg, analyzer>>

\* how requests.post(...) followed by raise_for_status() can end
PushOutcomes == {"ok", "ConnectionError", "Timeout", "HTTPError"}

\* the subclasses of requests.exceptions.RequestException among them
RequestExceptions == {"ConnectionError", "Timeout", "HTTPError"}

\* mutant: only a refused connection is caught
report_health_narrow(outcome) ==
    IF outcome \in {"ok", "ConnectionError"} THEN "returns" ELSE "raises"

\* Worker.report_health: except requests.exceptions.RequestException
report_health(outcome) ==
    IF outcome = "ok" \/ outcome \in RequestExceptions THEN "returns" ELSE "raises"

\* GET /heartbeat: report_health starts its blocking requests.post
Worker_handle_health_check ==
    /\ wk.pc = "idle"
    /\ wk' = [wk EXCEPT !.pc = "pushing", !.route = "/heartbeat", !.push = "none"]
    /\ UNCHANGED <<workers, os_bound, req, last_response, first_registered, self_results,
                   disk, agg, analyzer>>

\* the push ends with outcome; the handler answers
Worker_report_health(outcome) ==
    /\ wk.pc = "pushing"
    /\ wk' = [wk EXCEPT !.pc = "idle", !.push = outcome,
                        !.status = IF report_health(outcome) = "returns"
                                   THEN 200 ELSE 500]
    /\ UNCHANGED <<workers, os_bound, req, last_response, first_registered, self_results,
                   disk, agg, analyzer>>

\* ------------------------------------------------ the end-to-end scenario
\* two workers, each at its own endpoint
E2EWorkers == {<<"w1", "http://a">>, <<"w2", "http://b">>}

\* a file and a chunk_size that give a plan of 10 chunks
E2EFileSizes == {10}
E2EChunkSizes == {1}

\* the answer every worker gives to every /process call
E2EReplies ==
    { [kind |-> "json", status |-> 200,
       body |-> [requests_per_second |-> 5, avg_response_time |-> 100,
                 malformed_lines |-> 0, error_rate |-> 0]] }

\* the client posts /process_chunk once both workers are registered
NextE2E ==
    \/ \E w \in E2EWorkers : handle_worker_registration(w[1], w[2])
    \/ \E worker_id \in WorkerIds : handle_worker_health_check(worker_id)
    \/ \E r \in Requests, file_size \in E2EFileSizes, chunk_size \in E2EChunkSizes :
          /\ Len(workers) = 2
          /\ handle_process_chunk(r, TRUE, file_size, chunk_size)
    \/ \E r \in Requests : _split_file_while(r)
    \/ \E r \in Requests : handle_process_chunk_dispatch(r)
    \/ \E r \in Requests, reply \in E2EReplies :
          handle_process_chunk_resume(r, reply)

SpecE2E == Init /\ [][NextE2E]_vars

\* ------------------------------------------- aggregate_results on its own
\* result lists of at most n ChunkResults drawn from S
SeqsUpTo(S, n) == UNION {[1..k -> S] : k \in 0..n}

\* ChunkResults as parsed from a worker's JSON body
AggMetrics ==
    [requests_per_second : {0, 2, 5}, avg_response_time : {0, 7, 100},
     malformed_lines : {0, 1}, error_rate : {0}]

InitAgg ==
    /\ CoordinatorInit(Requests)
    /\ disk = <<>>
    /\ wk = IdleWorker
    /\ analyzer = NewAnalyzer
    /\ agg \in {[pc |-> "called", results |-> rs, returned |-> <<>>] :
                   rs \in SeqsUpTo(AggMetrics, MaxResults)}

\* self.aggregate_results(results) runs and returns
aggregate_results_call ==
    /\ agg.pc = "called"
    /\ agg' = [agg EXCEPT !.pc = "returned",
                          !.returned = <<aggregate_results(agg.results)>>]
    /\ UNCHANGED <<workers, os_bound, req, last_response, first_registered, self_results,
                   disk, wk, analyzer>>

NextAgg == aggregate_results_call

SpecAgg == InitAgg /\ [][NextAgg]_vars

\* ------------------------------------------------- the worker on its own
\* the tokens log lines are built from; the empty one gives a leading or a
\* doubled space
LineTokens == {<<"a">>, <<"b", "c">>, <<>>}

\* the tokens joined by single spaces
RECURSIVE JoinTokens(_)
JoinTokens(ts) ==
    IF ts = <<>> THEN <<>>
    ELSE IF Len(ts) = 1 THEN ts[1]
    ELSE ts[1] \o <<" ">> \o JoinTokens(Tail(ts))

\* what follows the tokens: the message with its time, with a newline, with
\* text after "ms", without "ms", without digits, with other words, nothing
LineTails ==
    { Literal \o <<"1", "2", "3", "m", "s">>,
      Literal \o <<"7", "m", "s", "\n">>,
      Literal \o <<"4", "0", "m", "s", "x">>,
      Literal \o <<"1", "2", "3">>,
      Literal \o <<"m", "s">>,
      <<" ", "R", "e", "q", "u", "e", "s", "t", " ", "i", "n", " ", "5", "m", "s">>,
      <<>> }

LogLines ==
    { JoinTokens(ts) \o t : ts \in SeqsUpTo(LineTokens, 4) \ {<<>>}, t \in LineTails }

\* files of two lines
TwoLineFiles ==
    LET good == <<"a", " ", "b", " ", "c">> \o Literal \o <<"5", "m", "s">>
        short == <<"a", " ", "b">> \o Literal \o <<"9", "m", "s">>
    IN  { l1 \o <<"\n">> \o l2 : l1 \in {good, short}, l2 \in {good, short} }

WorkerFiles == LogLines \cup TwoLineFiles

\* the start and size of the /process requests
WorkerStarts == {0, 2}

WorkerSizes == {1, 64}

InitWorker ==
    /\ CoordinatorInit(Requests)
    /\ disk \in WorkerFiles
    /\ wk = IdleWorker
    /\ agg = NoCall
    /\ analyzer = NewAnalyzer

NextWorker ==
    \/ \E exists \in BOOLEAN, start \in WorkerStarts, size \in WorkerSizes :
          Worker_handle_process_chunk(exists, start, size)
    \/ Worker_process_chunk_for
    \/ Worker_process_chunk_return
    \/ Worker_handle_health_check
    \/ \E outcome \in PushOutcomes : Worker_report_health(outcome)

SpecWorker == InitWorker /\ [][NextWorker]_vars

\* ------------------------------------------- a file split, read and summed
\* a line the pattern matches and one it does not, each with its newline
GoodLine == <<"a", " ", "b", " ", "c">> \o Literal \o <<"5", "m", "s", "\n">>

BadLine == <<"x", "\n">>

RECURSIVE Concat(_)
Concat(ls) == IF ls = <<>> THEN <<>> ELSE Head(ls) \o Concat(Tail(ls))

\* files made of complete lines
LogFiles == { Concat(ls) : ls \in SeqsUpTo({GoodLine, BadLine}, MaxLines) }

\* chunk sizes below, at, and above the length of a line and of a file
FileChunkSizes == {10, 16, 31, 33, 100}

InitFile ==
    /\ CoordinatorInit(Requests)
    /\ disk \in LogFiles
    /\ wk = IdleWorker
    /\ agg = NoCall
    /\ analyzer = NewAnalyzer

\* the answer of the worker to the call the request r awaits
WorkerAnswer(r) ==
    LET call == req[r].calls[Len(req[r].calls)]
    IN  [kind |-> "json", status |-> 200,
         body |-> ChunkResultJson(process_chunk(disk, call.start, call.size))]

\* the workers register, then the file on disk is submitted and every call
\* is answered by a worker that reads the file
NextFile ==
    \/ \E w \in E2EWorkers :
          /\ \A r \in Requests : req[r].pc = "idle"
          /\ handle_worker_registration(w[1], w[2])
    \/ \E r \in Requests, chunk_size \in FileChunkSizes :
          /\ workers # <<>>
          /\ handle_process_chunk(r, TRUE, Len(disk), chunk_size)
    \/ \E r \in Requests : _split_file_while(r)
    \/ \E r \in Requests : handle_process_chunk_dispatch(r)
    \/ \E r \in Requests :
          /\ req[r].pc = "await_worker"
          /\ handle_process_chunk_resume(r, WorkerAnswer(r))

SpecFile == InitFile /\ [][NextFile]_vars

\* ------------------------------------------------- two requests at once
TwoRequests == {"r1", "r2"}

\* the files of the two requests have 2 bytes, cut into chunks of 1
TwoFileSizes == {2}
TwoChunkSizes == {1}

\* the requests read different files: the answer to a call tells the
\* request and the chunk it was made for
TwoAnswer(r, index) ==
    [requests_per_second |-> (IF r = "r1" THEN 1 ELSE 3) + index,
     avg_response_time |-> 100, malformed_lines |-> index, error_rate |-> 0]

\* what the call the request r awaits can end with
TwoReplies(r) ==
    { [kind |-> "json", status |-> 200,
       body |-> TwoAnswer(r, req[r].calls[Len(req[r].calls)].index)],
      [kind |-> "network_error", status |-> 0, body |-> NoMetrics] }

InitTwo ==
    /\ CoordinatorInit(TwoRequests)
    /\ disk = <<>>
    /\ wk = IdleWorker
    /\ agg = NoCall
    /\ analyzer = NewAnalyzer

NextTwo ==
    \/ \E w \in E2EWorkers : handle_worker_registration(w[1], w[2])
    \/ \E r \in TwoRequests, file_size \in TwoFileSizes, chunk_size \in TwoChunkSizes :
          handle_process_chunk(r, TRUE, file_size, chunk_size)
    \/ \E r \in TwoRequests : _split_file_while(r)
    \/ \E r \in TwoRequests : handle_process_chunk_dispatch(r)
    \/ \E r \in TwoRequests :
          /\ req[r].pc = "await_worker"
          /\ \E reply \in TwoReplies(r) : handle_process_chunk_resume(r, reply)

SpecTwo == InitTwo /\ [][NextTwo]_vars

\* ----------------------------------------------------------- the Analyzer
\* the three totals update_metrics adds to
AnalyzerFields ==
    {"error_rate_per_minute", "average_response_time", "request_count_per_second"}

\* the keys a new_data dict may have, and their values
DeltaKeys == AnalyzerFields \cup {"resource_usage"}

DeltaValues == {1, 2}

\* a resource_usage entry, which update_metrics does not read, has one value
Deltas ==
    { d \in UNION { [S -> DeltaValues] : S \in SUBSET DeltaKeys } :
        "resource_usage" \in DOMAIN d => d["resource_usage"] = 1 }

\* dict.get(key, default)
DictGet(d, key, default) == IF key \in DOMAIN d THEN d[key] ELSE default

\* mutant: the totals are replaced by the fields of new_data
AddDeltaAssigns(metrics, new_data) ==
    [metrics EXCEPT
       !.error_rate_per_minute = DictGet(new_data, "error_rate_per_minute", 0),
       !.average_response_time = DictGet(new_data, "average_response_time", 0),
       !.request_count_per_second = DictGet(new_data, "request_count_per_second", 0)]

\* the three += of update_metrics
AddDelta(metrics, new_data) ==
    [metrics EXCEPT
       !.error_rate_per_minute = @ + DictGet(new_data, "error_rate_per_minute", 0),
       !.average_response_time = @ + DictGet(new_data, "average_response_time", 0),
       !.request_count_per_second = @ + DictGet(new_data, "request_count_per_second", 0)]

update_metrics(new_data) ==
    /\ Len(analyzer.deltas) < MaxDeltas
    /\ analyzer' = [analyzer EXCEPT !.metrics = AddDelta(@, new_data),
                                    !.deltas = Append(@, new_data),
                                    !.last = "update_metrics"]
    /\ UNCHANGED <<workers, os_bound, req, last_response, first_registered, self_results,
                   disk, wk, agg>>

get_current_metrics ==
    /\ analyzer' = [analyzer EXCEPT !.returned = <<analyzer.metrics>>,
                                    !.last = "get_current_metrics"]
    /\ UNCHANGED <<workers, os_bound, req, last_response, first_registered, self_results,
                   disk, wk, agg>>

NextAnalyzer ==
    \/ \E new_data \in Deltas : update_metrics(new_data)
    \/ get_current_metrics

SpecAnalyzer == Init /\ [][NextAnalyzer]_vars

\* --------------------------------------------------------------- claims
WorkerCallErrors == {"ContentTypeError", "ClientConnectionError"}

\* the worker at position (i mod N) of the registry as it was when the
\* dispatch of request r started
SnapshotWorker(r, i) == req[r].snap[(i % Len(req[r].snap)) + 1]

\* C1: every call of a request goes to the worker at position (i mod N) of
\* the registry snapshot taken when the dispatch started, also when workers
\* register between two chunks of the request.
C1_StableRoundRobin ==
    \A r \in Requests : \A k \in 1..Len(req[r].calls) :
        /\ Len(req[r].snap) > 0
        /\ req[r].calls[k].worker_id = SnapshotWorker(r, k - 1).worker_id

\* C2: with a registry of N >= 1 workers that no registration changes during
\* the request, the call for chunk i has index i, goes to the id and endpoint
\* at position (i mod N) of the registry and carries chunk i's offset and
\* length, whatever the earlier results were; a completed request has made
\* one call per chunk.
C2_RoundRobinAssignment ==
    \A r \in Requests :
        (req[r].dispatched /\ req[r].undisturbed) =>
            /\ \A k \in 1..Len(req[r].calls) :
                  /\ Len(req[r].snap) >= 1
                  /\ req[r].calls[k].index = k - 1
                  /\ req[r].calls[k].worker_id = SnapshotWorker(r, k - 1).worker_id
                  /\ req[r].calls[k].worker_url = SnapshotWorker(r, k - 1).worker_url
                  /\ req[r].calls[k].start = req[r].chunks[k][1]
                  /\ req[r].calls[k].size = req[r].chunks[k][2]
            /\ req[r].pc = "done" => Len(req[r].calls) = Len(req[r].chunks)
            /\ req[r].pc = "await_worker" => Len(req[r].calls) = req[r].i + 1

C2_Witness ==
    \E r \in Requests :
        /\ req[r].pc = "done"
        /\ req[r].undisturbed
        /\ Len(req[r].snap) = 2
        /\ Len(req[r].calls) >= 3
        /\ req[r].results[1] # req[r].results[2]

C4_EmptyRegistryFails ==
    \A r \in Requests :
        (req[r].dispatched /\ Len(req[r].chunks) > 0 /\ Len(req[r].snap) = 0) =>
            /\ req[r].pc = "failed"
            /\ req[r].error = "ZeroDivisionError"
            /\ req[r].status = 500
            /\ req[r].calls = <<>>
            /\ req[r].returned = <<>>
            /\ ~LoopBusy

C4_Witness ==
    \E r \in Requests :
        /\ req[r].dispatched
        /\ Len(req[r].chunks) >= 2
        /\ Len(req[r].snap) = 0
        /\ Len(workers) > 0

\* C5: with chunk_size <= 0 the planner rejects the request: it appends no
\* chunk and returns no plan to the dispatch loop.
C5_BadChunkSizeRejected ==
    \A r \in Requests :
        (req[r].pc # "idle" /\ req[r].chunk_size <= 0) =>
            /\ req[r].chunks = <<>>
            /\ ~req[r].dispatched

\* ceil(file_size / chunk_size) for chunk_size > 0
CeilDiv(file_size, chunk_size) == (file_size + chunk_size - 1) \div chunk_size

\* the byte positions of the range [offset, offset + length) of a chunk
Range(chunk) == chunk[1]..(chunk[1] + chunk[2] - 1)

\* the plans _split_file has returned for a positive chunk_size
Planned(r) == req[r].dispatched /\ req[r].chunk_size > 0

RECURSIVE SumLengths(_, _)
SumLengths(chunks, k) ==
    IF k > Len(chunks) THEN 0 ELSE chunks[k][2] + SumLengths(chunks, k + 1)

\* C6: for file_size >= 0 and chunk_size > 0 the returned plan is the chunks
\* (k * chunk_size, chunk_size) for k = 0 .. ceil(file_size / chunk_size) - 1:
\* empty for file_size = 0, first offset 0, offsets strictly increasing, each
\* chunk starting where the previous one ends, lengths summing to at least
\* file_size.
C6_PlanIsArithmetic ==
    \A r \in Requests :
        Planned(r) =>
            LET chunks == req[r].chunks
                n == Len(chunks)
            IN  /\ n = CeilDiv(req[r].file_size, req[r].chunk_size)
                /\ \A k \in 1..n :
                      chunks[k] = <<(k - 1) * req[r].chunk_size, req[r].chunk_size>>
                /\ (req[r].file_size = 0) => (n = 0)
                /\ (n > 0) => (chunks[1][1] = 0)
                /\ \A k \in 1..(n - 1) :
                      /\ chunks[k][1] < chunks[k + 1][1]
                      /\ chunks[k + 1][1] = chunks[k][1] + chunks[k][2]
                /\ SumLengths(chunks, 1) >= req[r].file_size

C6_Witness ==
    \E r \in Requests :
        /\ Planned(r)
        /\ Len(req[r].chunks) >= 2
        /\ req[r].chunk_size >= 2
        /\ req[r].file_size % req[r].chunk_size # 0

\* C7 as stated: the chunk ranges are pairwise disjoint and their union is
\* exactly [0, file_size), so no range holds a position >= file_size.
C7_ExactCover ==
    \A r \in Requests :
        Planned(r) =>
            LET chunks == req[r].chunks
            IN  /\ \A j, k \in 1..Len(chunks) :
                      (j # k) => (Range(chunks[j]) \cap Range(chunks[k]) = {})
                /\ UNION {Range(chunks[k]) : k \in 1..Len(chunks)}
                      = 0..(req[r].file_size - 1)

\* C7 amended: the chunk ranges are pairwise disjoint and every byte of
\* [0, file_size) lies in exactly one of them; their union is
\* [0, n * chunk_size) with n = ceil(file_size / chunk_size), so positions
\* >= file_size occur only in the last chunk, fewer than chunk_size of them.
C7_CoverWithOverhang ==
    \A r \in Requests :
        Planned(r) =>
            LET chunks == req[r].chunks
                n == Len(chunks)
                covered == UNION {Range(chunks[k]) : k \in 1..n}
            IN  /\ \A j, k \in 1..n :
                      (j # k) => (Range(chunks[j]) \cap Range(chunks[k]) = {})
                /\ \A b \in 0..(req[r].file_size - 1) :
                      Cardinality({k \in 1..n : b \in Range(chunks[k])}) = 1
                /\ covered = 0..(n * req[r].chunk_size - 1)
                /\ \A k \in 1..(n - 1) :
                      \A b \in Range(chunks[k]) : b < req[r].file_size
                /\ n * req[r].chunk_size - req[r].file_size < req[r].chunk_size

C7_Witness ==
    \E r \in Requests :
        /\ Planned(r)
        /\ Len(req[r].chunks) >= 2
        /\ \E b \in Range(req[r].chunks[Len(req[r].chunks)]) : b >= req[r].file_size

\* C8: a heartbeat for a worker id that is not registered leaves the registry
\* as it was (no entry created, ids, endpoints, statuses and order unchanged)
\* and is answered with a success response.
C8_HeartbeatUnknownNoOp ==
    [][\A worker_id \in WorkerIds :
          (handle_worker_health_check(worker_id) /\ worker_id \notin KeySet(workers)) =>
              /\ workers' = workers
              /\ worker_id \notin KeySet(workers')
              /\ last_response' =
                    [op |-> "heartbeat", worker_id |-> worker_id, status |-> 200]]_vars

C8_Witness ==
    /\ last_response.op = "heartbeat"
    /\ last_response.worker_id \notin KeySet(workers)
    /\ Len(workers) > 0

\* C9: in every reachable state every registry entry has status active, and
\* no step removes a worker id from the registry.
C9_ActiveAndNeverRemoved ==
    /\ [](\A k \in 1..Len(workers) : workers[k].status = "active")
    /\ [][KeySet(workers) \subseteq KeySet(workers')]_vars

C9_Witness ==
    /\ Len(workers) = 2
    /\ last_response.op = "heartbeat"
    /\ \E r \in Requests : req[r].pc = "failed" /\ req[r].error \in WorkerCallErrors

\* the frames of the /process_chunk requests, without the history flag
Frames(q) == [r \in Requests |-> [q[r] EXCEPT !.undisturbed = TRUE]]

\* C10: register(id, endpoint) leaves the entry of id with that endpoint and
\* status active and changes nothing else: a new id is appended last, a known
\* id keeps its position and every other entry is unchanged; so the registry
\* order is always the order of first registration.
C10_RegisterFrame ==
    /\ [](Keys(workers) = first_registered)
    /\ [][\A worker_id \in WorkerIds, worker_url \in WorkerUrls :
            handle_worker_registration(worker_id, worker_url) =>
                LET entry == [worker_id |-> worker_id, worker_url |-> worker_url,
                              status |-> "active"]
                    k == IndexOf(workers, worker_id)
                IN  /\ IF k = 0
                       THEN workers' = Append(workers, entry)
                       ELSE /\ Len(workers') = Len(workers)
                            /\ workers'[k] = entry
                            /\ \A j \in 1..Len(workers) :
                                  (j # k) => (workers'[j] = workers[j])
                    /\ Frames(req') = Frames(req)
                    /\ os_bound' = os_bound]_vars

C10_Witness ==
    /\ Len(workers) = 2
    /\ last_response.op = "register"
    /\ last_response.worker_id = workers[1].worker_id
    /\ workers[1].worker_url # workers[2].worker_url

\* the worker calls of request r that have been answered (with a result or
\* with a failure)
Answered(r) ==
    req[r].i + (IF req[r].error \in WorkerCallErrors THEN 1 ELSE 0)

\* C11: a request has at most one worker call in flight (one exactly while it
\* awaits, none otherwise), calls are issued in increasing chunk index, and
\* the result of the call for chunk i is appended at position i of the
\* result list before the call for chunk i + 1 is issued.
C11_SequentialDispatch ==
    /\ [](\A r \in Requests :
            /\ Len(req[r].calls) - Answered(r)
                  = (IF req[r].pc = "await_worker" THEN 1 ELSE 0)
            /\ \A k \in 1..Len(req[r].calls) : req[r].calls[k].index = k - 1
            /\ req[r].pc \in {"await_worker", "done"} => Len(req[r].results) = req[r].i)
    /\ [][\A r \in Requests : \A reply \in WorkerReplies :
            (handle_process_chunk_resume(r, reply) /\ reply.kind = "json") =>
                /\ req[r].calls[Len(req[r].calls)].index = Len(req[r].results)
                /\ req'[r].results = Append(req[r].results, reply.body)
                /\ Len(req'[r].calls) > Len(req[r].calls) =>
                      /\ Len(req'[r].calls) = Len(req[r].calls) + 1
                      /\ req'[r].calls[Len(req'[r].calls)].index = Len(req'[r].results)]_vars

C11_Witness ==
    \E r \in Requests :
        /\ req[r].pc = "done"
        /\ Len(req[r].results) >= 3
        /\ req[r].results[1] # req[r].results[3]

RECURSIVE SumSeq(_)
SumSeq(ns) == IF ns = <<>> THEN 0 ELSE Head(ns) + SumSeq(Tail(ns))

\* the sums the aggregate is specified by
SumRequests(results) ==
    SumSeq([k \in 1..Len(results) |-> results[k].requests_per_second])

SumMalformed(results) ==
    SumSeq([k \in 1..Len(results) |-> results[k].malformed_lines])

SumWeightedTime(results) ==
    SumSeq([k \in 1..Len(results) |->
               results[k].avg_response_time * results[k].requests_per_second])

\* equality of two quotients <<numerator, denominator>>
SameQuotient(a, b) == a[1] * b[2] = b[1] * a[2]

\* C12: aggregate_results returns requests_per_second and malformed_lines
\* equal to the sums of these fields over the results, and error_rate 0.
C12_AggregateSums ==
    (agg.pc = "returned") =>
        /\ agg.returned[1].requests_per_second = SumRequests(agg.results)
        /\ agg.returned[1].malformed_lines = SumMalformed(agg.results)
        /\ agg.returned[1].error_rate = 0

C12_Witness ==
    /\ agg.pc = "returned"
    /\ Len(agg.results) = 2
    /\ agg.results[1].malformed_lines = 1
    /\ agg.results[2].malformed_lines = 0
    /\ agg.results[1].requests_per_second = 2
    /\ agg.results[2].requests_per_second = 5

\* C13: the aggregate avg_response_time is sum(avg_response_time *
\* requests_per_second) / total requests_per_second when the total is
\* positive and 0 otherwise, the divisor is never 0, and the aggregate of the
\* empty list has all fields zero.
C13_WeightedAverage ==
    (agg.pc = "returned") =>
        LET out == agg.returned[1]
            total == SumRequests(agg.results)
        IN  /\ out.avg_response_time[2] > 0
            /\ (total > 0) =>
                  SameQuotient(out.avg_response_time,
                               <<SumWeightedTime(agg.results), total>>)
            /\ (total = 0) => (out.avg_response_time[1] = 0)
            /\ (agg.results = <<>>) =>
                  /\ out.avg_response_time[1] = 0
                  /\ out.requests_per_second = 0
                  /\ out.error_rate = 0
                  /\ out.malformed_lines = 0

C13_Witness ==
    /\ agg.pc = "returned"
    /\ Len(agg.results) = 2
    /\ agg.results[1].requests_per_second = 2
    /\ agg.results[1].avg_response_time = 7
    /\ agg.results[2].requests_per_second = 5
    /\ agg.results[2].avg_response_time = 100

\* the results with at least one request
WithRequests(results) == SelectSeq(results, LAMBDA m : m.requests_per_second # 0)

\* C14: dropping the results with requests_per_second = 0, whatever their
\* avg_response_time, changes neither the aggregate avg_response_time nor the
\* aggregate requests_per_second.
C14_ZeroRequestChunksIgnored ==
    (agg.pc = "returned") =>
        LET out == agg.returned[1]
            without == aggregate_results(WithRequests(agg.results))
        IN  /\ SameQuotient(without.avg_response_time, out.avg_response_time)
            /\ without.requests_per_second = out.requests_per_second

C14_Witness ==
    /\ agg.pc = "returned"
    /\ Len(agg.results) = 2
    /\ agg.results[1].requests_per_second = 0
    /\ agg.results[1].avg_response_time = 7
    /\ agg.results[2].requests_per_second = 5
    /\ agg.results[2].avg_response_time = 100

\* the calls of request r that went to worker_id
CallsTo(r, worker_id) ==
    Cardinality({k \in 1..Len(req[r].calls) : req[r].calls[k].worker_id = worker_id})

\* what the end-to-end request returns once it is done
E2EValues(r) ==
    (req[r].pc = "done") =>
        /\ Len(req[r].calls) = 10
        /\ \A worker_id \in WorkerIds : CallsTo(r, worker_id) = 5
        /\ req[r].returned[1].requests_per_second = 50
        /\ SameQuotient(req[r].returned[1].avg_response_time, <<100, 1>>)
        /\ req[r].returned[1].malformed_lines = 0

\* C15: with 2 registered workers, a 10-chunk plan and every worker call
\* answered with {requests_per_second: 5, avg_response_time: 100,
\* malformed_lines: 0}, the request does not fail, and it completes after
\* exactly 10 worker calls, 5 to each worker, returning requests_per_second
\* 50, avg_response_time 100 and malformed_lines 0.
C15_EndToEnd ==
    \A r \in Requests :
        /\ req[r].pc # "failed"
        /\ E2EValues(r)

\* the part of C15 that the code keeps: the values of a completed request
C15_ValuesWhenDone == \A r \in Requests : E2EValues(r)

C15_DoneReached == \E r \in Requests : req[r].pc = "done"

\* text cut at its single spaces, as text.split(" ")
RECURSIVE SplitFrom(_, _, _, _)
SplitFrom(text, pos, cur, acc) ==
    IF pos > Len(text)
    THEN Append(acc, cur)
    ELSE IF text[pos] = " "
    THEN SplitFrom(text, pos + 1, <<>>, Append(acc, cur))
    ELSE SplitFrom(text, pos + 1, Append(cur, text[pos]), acc)

Split(text) == SplitFrom(text, 1, <<>>, <<>>)

\* text without the newline at its end
Chomp(text) ==
    IF text # <<>> /\ text[Len(text)] = "\n" THEN SubSeq(text, 1, Len(text) - 1) ELSE text

\* a token: not empty and without whitespace
IsToken(t) == t # <<>> /\ \A j \in 1..Len(t) : NonSpace(t[j])

\* the words "Request", "processed", "in" at positions n+1..n+3 of ts
MessageAt(ts, n) ==
    /\ ts[n + 1] = <<"R", "e", "q", "u", "e", "s", "t">>
    /\ ts[n + 2] = <<"p", "r", "o", "c", "e", "s", "s", "e", "d">>
    /\ ts[n + 3] = <<"i", "n">>

\* the lengths n for which t is n digits and then "ms"
TimeLengths(t) ==
    { n \in 1..(Len(t) - 2) :
        /\ \A j \in 1..n : t[j] \in DigitChars
        /\ t[n + 1] = "m"
        /\ t[n + 2] = "s" }

\* the integer t begins with
TimeOf(t) == IntOf(SubSeq(t, 1, CHOOSE n \in TimeLengths(t) : TRUE))

\* the shape C16 names: two tokens, the message, an integer followed by ms
TwoTokenShape(line) ==
    LET ts == Split(Chomp(line))
    IN  /\ Len(ts) = 6
        /\ IsToken(ts[1])
        /\ IsToken(ts[2])
        /\ MessageAt(ts, 2)
        /\ TimeLengths(ts[6]) = {Len(ts[6]) - 2}

\* the shape the pattern has: three tokens, the message, and a seventh
\* piece that begins with an integer followed by ms
ThreeTokenShape(line) ==
    LET ts == Split(line)
    IN  /\ Len(ts) >= 7
        /\ IsToken(ts[1])
        /\ IsToken(ts[2])
        /\ IsToken(ts[3])
        /\ MessageAt(ts, 3)
        /\ TimeLengths(ts[7]) # {}

\* the worker's loop handles the line wk.lines[wk.k]
ParseStep == wk.pc = "parsing" /\ wk'.pc = "parsing" /\ wk'.k = wk.k + 1

\* the line is counted as a request of time t
CountedAsRequest(t) ==
    /\ wk'.total_requests = wk.total_requests + 1
    /\ wk'.total_time = wk.total_time + t
    /\ wk'.malformed_lines = wk.malformed_lines

CountedAsMalformed ==
    /\ wk'.malformed_lines = wk.malformed_lines + 1
    /\ wk'.total_requests = wk.total_requests
    /\ wk'.total_time = wk.total_time

\* C16 as stated: a line of two space-free tokens, " Request processed in ",
\* an integer and "ms" is counted as a request and its integer added to the
\* total time; every other line is counted as malformed; each line changes
\* exactly one counter.
C16_TwoTokenLines ==
    [][ParseStep =>
          IF TwoTokenShape(wk.lines[wk.k])
          THEN CountedAsRequest(TimeOf(Split(Chomp(wk.lines[wk.k]))[6]))
          ELSE CountedAsMalformed]_vars

\* C16 amended: a line that begins with three whitespace-free tokens
\* separated by single spaces, then " Request processed in ", an integer and
\* "ms" (anything may follow) is counted as a request and its integer added
\* to the total time; every other line is counted as malformed; each line
\* changes exactly one of the two counters.
C16_ThreeTokenLines ==
    [][ParseStep =>
          IF ThreeTokenShape(wk.lines[wk.k])
          THEN CountedAsRequest(TimeOf(Split(wk.lines[wk.k])[7]))
          ELSE CountedAsMalformed]_vars

\* both lines of a file were handled: the three-token one was counted as a
\* request of 5 ms, the two-token one as malformed
C16_Witness ==
    /\ wk.pc = "parsing"
    /\ wk.k = 3
    /\ ThreeTokenShape(wk.lines[1])
    /\ TwoTokenShape(wk.lines[2])
    /\ wk.total_requests = 1
    /\ wk.total_time = 5
    /\ wk.malformed_lines = 1

\* C17: whatever the outcome of the outbound push (connection failure,
\* timeout, error status), GET /heartbeat answers 200, the failure does not
\* reach the caller, and the worker is ready for the next request, with the
\* lines and counters of its parser untouched.
C17_HeartbeatAnswers200 ==
    [][wk.pc = "pushing" /\ wk'.pc # "pushing" =>
          /\ wk'.push \in PushOutcomes
          /\ wk'.status = 200
          /\ wk'.pc = "idle"
          /\ wk'.lines = wk.lines
          /\ wk'.returned = wk.returned]_vars

\* after a failed push, a /process request was served to its end
C17_Witness ==
    /\ wk.push \in RequestExceptions
    /\ wk.route = "/process"
    /\ wk.pc = "idle"
    /\ wk.status = 200
    /\ wk.returned # <<>>

\* the sum over the calls made so far of field f of the delta, 0 if absent
RECURSIVE SumField(_, _)
SumField(ds, f) ==
    IF ds = <<>> THEN 0
    ELSE (IF f \in DOMAIN Head(ds) THEN Head(ds)[f] ELSE 0) + SumField(Tail(ds), f)

\* C18: after any sequence of update_metrics calls on a fresh Analyzer each
\* of the three totals is the sum over the calls of that field of the delta
\* (absent: 0), resource_usage is still empty, and get_current_metrics
\* returns exactly these totals and leaves them as they are.
C18_TotalsAreSums ==
    /\ \A f \in AnalyzerFields : analyzer.metrics[f] = SumField(analyzer.deltas, f)
    /\ analyzer.metrics.resource_usage = <<>>
    /\ analyzer.last = "get_current_metrics" =>
          /\ analyzer.returned = <<analyzer.metrics>>
          /\ \A f \in AnalyzerFields :
                analyzer.returned[1][f] = SumField(analyzer.deltas, f)

\* two calls, one without request_count_per_second and with a
\* resource_usage key, then the totals were read
C18_Witness ==
    /\ Len(analyzer.deltas) = 2
    /\ "request_count_per_second" \notin DOMAIN analyzer.deltas[1]
    /\ "resource_usage" \in DOMAIN analyzer.deltas[1]
    /\ "request_count_per_second" \in DOMAIN analyzer.deltas[2]
    /\ analyzer.metrics.request_count_per_second = 2
    /\ analyzer.last = "get_current_metrics"

\* the lines of a text made of complete lines
RECURSIVE LinesOf(_)
LinesOf(text) ==
    IF text = <<>> THEN <<>>
    ELSE LET n == CHOOSE j \in 1..Len(text) :
                      text[j] = "\n" /\ \A i \in 1..(j - 1) : text[i] # "\n"
         IN  <<SubSeq(text, 1, n)>> \o LinesOf(SubSeq(text, n + 1, Len(text)))

\* how many lines of the text have the shape the pattern asks for
MatchingLines(text) ==
    Cardinality({ j \in 1..Len(LinesOf(text)) : ThreeTokenShape(LinesOf(text)[j]) })

\* the lines counted by the chunks of a request, matched or malformed
RECURSIVE CountedLines(_)
CountedLines(results) ==
    IF results = <<>> THEN 0
    ELSE Head(results).requests_per_second + Head(results).malformed_lines
         + CountedLines(Tail(results))

\* C19: for a file of complete lines and a chunk_size > 0, when the request
\* completes each line has been counted by exactly one chunk: the chunks'
\* requests_per_second + malformed_lines sum to the number of lines of the
\* file, and the aggregate requests_per_second is its number of matching lines.
C19_EachLineCountedOnce ==
    \A r \in Requests :
        req[r].pc = "done" /\ req[r].chunk_size > 0 =>
            /\ CountedLines(req[r].results) = Len(LinesOf(disk))
            /\ req[r].returned[1].requests_per_second = MatchingLines(disk)

\* what the code does keep: a chunk_size above the length of the file gives
\* one chunk, whose worker reads every line once
C19_OneChunkCountsOnce ==
    \A r \in Requests :
        req[r].pc = "done" /\ req[r].chunk_size > Len(disk) =>
            /\ CountedLines(req[r].results) = Len(LinesOf(disk))
            /\ req[r].returned[1].requests_per_second = MatchingLines(disk)

\* a request over a file of two lines completed
C19_DoneReached ==
    \E r \in Requests :
        req[r].pc = "done" /\ Len(LinesOf(disk)) = 2 /\ Len(req[r].results) >= 2

\* the handler of request r moves: its frame changes in more than the
\* history flag that registrations write
RequestStep(r) ==
    [req'[r] EXCEPT !.undisturbed = TRUE] # [req[r] EXCEPT !.undisturbed = TRUE]

\* the results a completed request must hold: the answers to its own calls,
\* one per chunk, in chunk order
OwnResults(r) == [k \in 1..Len(req[r].chunks) |-> TwoAnswer(r, k - 1)]

\* C20: of two requests whose dispatch loops interleave, a step of one
\* leaves the frame of the other, the registry and self.results as they
\* are, and a completed request returns the aggregate of the answers to its
\* own chunks, in its own chunk order.
C20_RequestsIsolated ==
    /\ [][\A r \in TwoRequests :
            RequestStep(r) =>
                /\ \A o \in TwoRequests \ {r} : req'[o] = req[o]
                /\ workers' = workers
                /\ self_results' = self_results
                /\ last_response' = last_response]_vars
    /\ [](\A r \in TwoRequests :
            req[r].pc = "done" =>
                /\ req[r].results = OwnResults(r)
                /\ req[r].returned = <<aggregate_results(OwnResults(r))>>)
    /\ [](self_results = <<>>)

\* both requests had a call in flight at once; one completed, the other failed
C20_Witness ==
    /\ req["r1"].pc = "done"
    /\ req["r2"].pc = "failed"
    /\ req["r2"].error = "ClientConnectionError"
    /\ Len(req["r2"].calls) = 2
    /\ Len(req["r1"].results) = 2
    /\ Len(workers) = 2
====
